---- MODULE Spec2Model ----
(***************************************************************************)
(* Segment bitmaps of ihex-visualize: one bit per tracked byte-position,   *)
(* MSB-first inside each bitmap byte.                                      *)
(*                                                                         *)
(* src/src/ihex_storage_utils.rs : get_pad_counts, end_mask, bit_msk,      *)
(*                                 fill_bytes, is_seg_range_set            *)
(* src/src/main.rs               : the fill_bytes the ingestion loop calls *)
(*                                 and the record loop of main             *)
(*                                                                         *)
(* Scaling.  Offsets and lengths are u16 in the source and one segment     *)
(* tracks 0x10000 positions in 8192 bitmap bytes.  The width of that       *)
(* offset type is the bound AddrBits: IHEX_SEGMENT_BYTES = 2^AddrBits,     *)
(* SEGMENT_BYTES = IHEX_SEGMENT_BYTES / 8 and u16 arithmetic wraps modulo  *)
(* 2^AddrBits, so the relations the code relies on (u16 range = tracked    *)
(* positions = 8 * bitmap bytes) are the source's.  Every (start, len)     *)
(* pair of that width is enumerated.                                       *)
(***************************************************************************)
EXTENDS Integers, FiniteSets, Sequences, TLC

\* ------------------------------------------------------------------ bounds
\* Width in bits of a segment offset / length (16 in the source: u16).
AddrBits == 5
\* Number of records the ingestion loop reads from the file.
MaxRecords == 3
\* Extended-address records carry addr in {hi * 0x1000 + lo : hi <= MaxAddrHi, lo <= 1}.
MaxAddrHi == 1

\* ---------------------------------------------------------------- constants
IHEX_SEGMENT_BYTES == 2 ^ AddrBits
SEGMENT_BYTES == IHEX_SEGMENT_BYTES \div 8

\* The values of the offset type (u16).
U16 == 0 .. (IHEX_SEGMENT_BYTES - 1)
\* u16 arithmetic without overflow checks wraps.
WrapU16(x) == x % IHEX_SEGMENT_BYTES

Min(a, b) == IF a < b THEN a ELSE b
Max(a, b) == IF a > b THEN a ELSE b

\* ------------------------------------------------------------- u8 bit ops
\* Bit k (k = 0 least significant) of byte v.
Bit(v, k) == (v \div (2 ^ k)) % 2
\* a | b, a & b, a ^ b and !a on bytes.
BitOr(a, b) ==
  LET f(k) == IF Bit(a, k) = 1 \/ Bit(b, k) = 1 THEN 2 ^ k ELSE 0
  IN  f(0) + f(1) + f(2) + f(3) + f(4) + f(5) + f(6) + f(7)
BitAnd(a, b) ==
  LET f(k) == IF Bit(a, k) = 1 /\ Bit(b, k) = 1 THEN 2 ^ k ELSE 0
  IN  f(0) + f(1) + f(2) + f(3) + f(4) + f(5) + f(6) + f(7)
BitXor(a, b) ==
  LET f(k) == IF Bit(a, k) # Bit(b, k) THEN 2 ^ k ELSE 0
  IN  f(0) + f(1) + f(2) + f(3) + f(4) + f(5) + f(6) + f(7)
BitNot(a) == 255 - a
\* OR of a finite set of bytes.
OrAll(S) ==
  LET f(k) == IF \E v \in S : Bit(v, k) = 1 THEN 2 ^ k ELSE 0
  IN  f(0) + f(1) + f(2) + f(3) + f(4) + f(5) + f(6) + f(7)

\* -------------------------------------------------- ihex_storage_utils.rs
ibyte_to_mapbyte(ibyte) == <<ibyte \div 8, ibyte % 8>>

\* Mutant: the trailing "% 8" of the leading count is dropped.
get_pad_counts_NoMod8(start, len) ==
  LET start_align == (start \div 8) * 8
      lead == Min(8 - (start - start_align), len)
      rawFull == len - lead
      full == WrapU16(rawFull) \div 8
      rawMul == full * 8
      rawEnd == WrapU16(rawFull) - WrapU16(rawMul)
  IN  [leading |-> lead, full |-> full, ending |-> WrapU16(rawEnd),
       ovf |-> \E r \in {rawFull, rawMul, rawEnd} : r \notin U16]

\* (leading bits, full bytes, ending bits) of the range; ovf records whether
\* any intermediate u16 subtraction or multiplication left the u16 range
\* (a panic with overflow checks, a wrapped value without).
get_pad_counts(start, len) ==
  LET start_align == (start \div 8) * 8
      rawOff == start - start_align
      rawGap == 8 - WrapU16(rawOff)
      lead == Min(WrapU16(rawGap), len) % 8
      rawFull == len - lead
      full == WrapU16(rawFull) \div 8
      rawMul == full * 8
      rawEnd == WrapU16(rawFull) - WrapU16(rawMul)
  IN  [leading |-> lead, full |-> full, ending |-> WrapU16(rawEnd),
       ovf |-> \E r \in {start_align, rawOff, rawGap, rawFull, rawMul, rawEnd} : r \notin U16]

end_mask(bits) ==
  IF bits > 8 THEN 255 ELSE (255 * (2 ^ (8 - bits))) % 256

\* Mutant: the single-bit mask counts from the least significant bit.
bit_msk_LsbFirst(num) == (2 ^ (num % 8)) % 256

\* 0b10000000 >> num.  A shift count above 7 is an overflow of the u8 shift:
\* the callers record the counts they pass (bits) and the model shifts by
\* the count modulo 8, as the unchecked build does.
bit_msk(num) == 128 \div (2 ^ (num % 8))

\* Reading a Vec<u8> at an index; an index outside the Vec is recorded by the
\* caller as a bounds violation (oob), the value read is then irrelevant.
Get(m, i) == IF i \in DOMAIN m THEN m[i] ELSE 0

\* max(start + len - 0x10000, 0) in i32, cast to u16.
wrap_remainder(start, len) == WrapU16(Max(start + len - IHEX_SEGMENT_BYTES, 0))

\* Mutant: the trailing bits go to the byte that took the leading bits.
start_offset_AlwaysZero(bits_leading) == 0

\* Mutant: the full bytes and the trailing byte always skip one bitmap byte.
start_offset_AlwaysOne(bits_leading) == 1

start_offset(bits_leading) == IF bits_leading = 0 THEN 0 ELSE 1

\* Mutant: the leading bits toggle instead of being OR'd in.
fill_leading_Xor(m, target_byte, target_bit, bits_leading) ==
  [b \in DOMAIN m |->
     IF b = target_byte
       THEN BitXor(m[b], OrAll({bit_msk(i + target_bit) : i \in 0 .. (bits_leading - 1)}))
       ELSE m[b]]

\* Mutant: the leading bits are written from the low end of the byte.
fill_leading_LowBits(m, target_byte, target_bit, bits_leading) ==
  [b \in DOMAIN m |->
     IF b = target_byte /\ bits_leading > 0
       THEN BitOr(m[b], (2 ^ bits_leading) - 1)
       ELSE m[b]]

\* for i in 0..bits_leading { map[target_byte] |= bit_msk(i + target_bit) }
fill_leading(m, target_byte, target_bit, bits_leading) ==
  [b \in DOMAIN m |->
     IF b = target_byte
       THEN BitOr(m[b], OrAll({bit_msk(i + target_bit) : i \in 0 .. (bits_leading - 1)}))
       ELSE m[b]]

\* for i in 0..bytes_full { map[first + i] = 0xFF }
fill_full(m, first, bytes_full) ==
  [b \in DOMAIN m |-> IF b \in first .. (first + bytes_full - 1) THEN 255 ELSE m[b]]

\* Mutant: the trailing byte is assigned instead of OR'd.
fill_ending_Assign(m, at, bits_ending) ==
  [b \in DOMAIN m |->
     IF b = at /\ bits_ending # 0 THEN end_mask(bits_ending % 256) ELSE m[b]]

\* if bits_ending != 0 { map[at] |= end_mask(bits_ending as u8) }
fill_ending(m, at, bits_ending) ==
  [b \in DOMAIN m |->
     IF b = at /\ bits_ending # 0 THEN BitOr(m[b], end_mask(bits_ending % 256)) ELSE m[b]]

\* The body of fill_bytes below the pad counts p of the truncated range:
\* lines 46-63.  The result carries the bitmap and what the pass did: idx, the
\* bitmap indices it indexed; bits, the counts it passed to bit_msk; oob, an
\* index outside the Vec (the process panics there; the bitmap of a panicked
\* process is not observable and is left as it was).
fill_pass(m, start, p) ==
  LET target_byte == ibyte_to_mapbyte(start)[1]
      target_bit == ibyte_to_mapbyte(start)[2]
      first == target_byte + start_offset(p.leading)
      idx == (IF p.leading > 0 THEN {target_byte} ELSE {})
             \cup {first + i : i \in 0 .. (p.full - 1)}
             \cup (IF p.ending # 0 THEN {first + p.full} ELSE {})
  IN  [map |-> IF idx \subseteq DOMAIN m
                 THEN fill_ending(
                        fill_full(
                          fill_leading(m, target_byte, target_bit, p.leading),
                          first, p.full),
                        first + p.full, p.ending)
                 ELSE m,
       idx |-> idx,
       bits |-> {i + target_bit : i \in 0 .. (p.leading - 1)},
       ovf |-> p.ovf,
       oob |-> ~(idx \subseteq DOMAIN m),
       depth |-> 0]

\* What a call that recursed for its tail did: its own pass and the callee's.
fill_join(here, r) ==
  [map |-> r.map,
   idx |-> here.idx \cup r.idx,
   bits |-> here.bits \cup r.bits,
   ovf |-> here.ovf \/ r.ovf,
   oob |-> r.oob,
   depth |-> 1 + r.depth]

\* fill_bytes(map, start, len): the pass over the truncated range, then the
\* recursive call for the remainder.  ovf also records an underflow of
\* len - remainder; depth counts the recursive calls made.
RECURSIVE fill_bytes(_, _, _)
fill_tail(here, remainder, underflow) ==
  IF remainder > 0 /\ ~here.oob
    THEN fill_join([here EXCEPT !.ovf = @ \/ underflow], fill_bytes(here.map, 0, remainder))
    ELSE [here EXCEPT !.ovf = @ \/ underflow]

fill_bytes(m, start, len) ==
  fill_tail(
    fill_pass(m, start, get_pad_counts(start, WrapU16(len - wrap_remainder(start, len)))),
    wrap_remainder(start, len),
    (len - wrap_remainder(start, len)) \notin U16)

\* for i in 0..bits_leading { if segment[target_byte] & bit_msk(i + target_bit) != 0 { return true } }
query_leading(segment, target_byte, target_bit, bits_leading) ==
  \E i \in 0 .. (bits_leading - 1) :
     BitAnd(Get(segment, target_byte), bit_msk(i + target_bit)) # 0

\* for i in 0..bytes_full { if segment[first + i] != 0 { return true } }
query_full(segment, first, bytes_full) ==
  \E j \in first .. (first + bytes_full - 1) : Get(segment, j) # 0

\* bits_ending > 0 && segment[at] & end_mask(bits_ending as u8) != 0
query_ending(segment, at, bits_ending) ==
  bits_ending > 0 /\ BitAnd(Get(segment, at), end_mask(bits_ending % 256)) # 0

\* The body of is_seg_range_set below the pad counts p of the truncated range:
\* lines 77-95.  ret is the value returned; idx and bits are the bitmap
\* indices read and the counts passed to bit_msk up to the return (the scan
\* stops at the first hit); oob, an index outside the Vec (a panic: nothing
\* is returned).
query_pass(segment, start, p) ==
  LET target_byte == ibyte_to_mapbyte(start)[1]
      target_bit == ibyte_to_mapbyte(start)[2]
      first == target_byte + start_offset(p.leading)
      leadHit == query_leading(segment, target_byte, target_bit, p.leading)
      fullHit == query_full(segment, first, p.full)
      idx == (IF p.leading > 0 THEN {target_byte} ELSE {})
             \cup (IF leadHit THEN {}
                   ELSE {j \in first .. (first + p.full - 1) :
                           \A k \in first .. (j - 1) : Get(segment, k) = 0})
             \cup (IF ~leadHit /\ ~fullHit /\ p.ending > 0 THEN {first + p.full} ELSE {})
  IN  [ret |-> /\ idx \subseteq DOMAIN segment
               /\ leadHit \/ fullHit \/ query_ending(segment, first + p.full, p.ending),
       idx |-> idx,
       bits |-> {b \in target_bit .. (target_bit + p.leading - 1) :
                   \A c \in target_bit .. (b - 1) :
                      BitAnd(Get(segment, target_byte), bit_msk(c)) = 0},
       ovf |-> p.ovf,
       oob |-> ~(idx \subseteq DOMAIN segment)]

\* Mutant: the overflow tail is looked up from offset 0, as fill_bytes writes it.
RECURSIVE is_seg_range_set_Wrapping(_, _, _)
is_seg_range_set_Wrapping(segment, start, len) ==
  LET here == query_pass(segment, start,
                get_pad_counts(start, WrapU16(len - wrap_remainder(start, len))))
  IN  IF wrap_remainder(start, len) > 0 /\ ~here.ret
        THEN is_seg_range_set_Wrapping(segment, 0, wrap_remainder(start, len))
        ELSE here

\* is_seg_range_set(segment, start, len): the scan of the truncated range.
\* ovf also records an underflow of len - remainder.
is_seg_range_set(segment, start, len) ==
  [query_pass(segment, start,
     get_pad_counts(start, WrapU16(len - wrap_remainder(start, len))))
   EXCEPT !.ovf = @ \/ (len - wrap_remainder(start, len)) \notin U16]

\* ------------------------------------------------------------------ main.rs
\* The outcomes of a call: it returns, or the process panics.
NoPanic == "none"
PanicRemZero == "remainder by zero"
PanicOverflow == "arithmetic overflow"
PanicIndex == "index out of bounds"

\* 1u8 << n, minus 1: the low n bits.  n > 7 overflows the u8 shift; without
\* overflow checks the count is taken modulo 8.
low_bits_mask(n) == (2 ^ (n % 8)) - 1

\* main.rs fill_bytes(map, start, len) built with (checked) or without overflow
\* checks: [map, panic].
RECURSIVE main_fill_bytes(_, _, _, _)
main_fill_bytes(m, start, len, checked) ==
  LET remainder == wrap_remainder(start, len)
      len1 == WrapU16(len - remainder)
      len_or_8 == Min(len1, 8)
  IN  IF len_or_8 = 0
        THEN [map |-> m, panic |-> PanicRemZero]
        ELSE
  LET rawLead == IF start % len_or_8 = 0 THEN 0 ELSE len_or_8 - (start % 8)
      bits_leading == WrapU16(rawLead)
      rawRest == len1 - bits_leading
      bits_ending == WrapU16(rawRest) % 8
      bytes_full == (WrapU16(rawRest) - bits_ending) \div 8
      target_byte0 == start \div 8
      target_byte == IF bits_leading # 0 THEN target_byte0 + 1 ELSE target_byte0
      fullIdx == {target_byte + i : i \in 0 .. (bytes_full - 1)}
      endAt == target_byte + bytes_full
      m1 == [b \in DOMAIN m |->
               IF b = target_byte0 /\ bits_leading # 0
                 THEN BitOr(m[b], low_bits_mask(bits_leading)) ELSE m[b]]
      m2 == [b \in DOMAIN m |-> IF b \in fullIdx THEN 255 ELSE m1[b]]
      m3 == [b \in DOMAIN m |->
               IF b = endAt /\ bits_ending # 0
                 THEN BitOr(m2[b], BitNot(low_bits_mask(8 - bits_ending))) ELSE m2[b]]
  IN  IF checked /\ (rawLead \notin U16 \/ rawRest \notin U16)
        THEN [map |-> m, panic |-> PanicOverflow]
      ELSE IF bits_leading # 0 /\ target_byte0 \notin DOMAIN m
        THEN [map |-> m, panic |-> PanicIndex]
      ELSE IF checked /\ bits_leading > 7
        THEN [map |-> m, panic |-> PanicOverflow]
      ELSE IF \E i \in fullIdx : i \notin DOMAIN m
        THEN [map |-> m2, panic |-> PanicIndex]
      ELSE IF bits_ending # 0 /\ endAt \notin DOMAIN m
        THEN [map |-> m2, panic |-> PanicIndex]
      ELSE IF remainder > 0
        THEN main_fill_bytes(m3, 0, remainder, checked)
      ELSE [map |-> m3, panic |-> NoPanic]

\* Data records select the bitmap by page.
page_of(esx_addr, ela_addr) ==
  IF esx_addr # 0 THEN (esx_addr \div 4096) % 16 ELSE ela_addr

\* Mutant: the page always gets a fresh zeroed bitmap (insert instead of entry).
entry_or_default_resize_Fresh(sm, page) ==
  [q \in DOMAIN sm \cup {page} |->
     IF q = page THEN [i \in 0 .. (SEGMENT_BYTES - 1) |-> 0] ELSE sm[q]]

\* segment_map.entry(page).or_default().resize(SEGMENT_BYTES, 0)
entry_or_default_resize(sm, page) ==
  LET old == IF page \in DOMAIN sm THEN sm[page] ELSE [i \in {} |-> 0]
  IN  [q \in DOMAIN sm \cup {page} |->
         IF q = page
           THEN [i \in 0 .. (SEGMENT_BYTES - 1) |-> IF i \in DOMAIN old THEN old[i] ELSE 0]
           ELSE sm[q]]

\* Mutant: the segment record does not reset the linear counter.
on_extended_segment_address_KeepEla(addr, esx_addr, ela_addr) ==
  [esx |-> addr, ela |-> ela_addr]

\* Record::ExtendedSegmentAddress(addr) => { ihex_esx_addr = addr; ihex_ela_addr = 0; }
on_extended_segment_address(addr, esx_addr, ela_addr) ==
  [esx |-> addr, ela |-> 0]

\* Record::ExtendedLinearAddress(addr) => { ihex_esx_addr = 0; ihex_ela_addr = addr; }
on_extended_linear_address(addr, esx_addr, ela_addr) ==
  [esx |-> 0, ela |-> addr]

\* ------------------------------------------------------------------- state
VARIABLES
  map,            \* the bitmap the storage functions are called on
  before,         \* that bitmap as it was when the last call was made
  op,             \* the last call: "init", "fill", "refill", "query", "requery", "pads", "main_fill"
  start, len,     \* the arguments of the last call
  ret,            \* what is_seg_range_set returned
  pads,           \* what get_pad_counts returned
  diag,           \* what the last call indexed, shifted by, overflowed
  panic,          \* NoPanic, or how the process ended
  checked,        \* the build has overflow checks
  ihex_ela_addr,  \* main: the extended linear address counter
  ihex_esx_addr,  \* main: the extended segment address counter
  segment_map,    \* main: page -> bitmap
  nrec,           \* main: records read so far
  rec,            \* main: the last record read
  call            \* main: the page and bitmap the last data record handed to fill_bytes

storage_vars == <<map, before, op, start, len, ret, pads, diag>>
main_vars == <<ihex_ela_addr, ihex_esx_addr, segment_map, nrec, rec, call>>
vars == <<map, before, op, start, len, ret, pads, diag, panic, checked,
          ihex_ela_addr, ihex_esx_addr, segment_map, nrec, rec, call>>

\* Bytes the initial bitmaps are made of, and the bitmaps: every bitmap is the
\* result of earlier fills of a zeroed one.
InitBytes == {0, 90, 255}
InitMaps ==
  {[b \in 0 .. (SEGMENT_BYTES - 1) |-> IF b % 2 = 0 THEN x ELSE y] : x, y \in InitBytes}
ZeroMap == [b \in 0 .. (SEGMENT_BYTES - 1) |-> 0]

NoDiag == [idx |-> {}, bits |-> {}, ovf |-> FALSE, oob |-> FALSE, depth |-> 0]
NoPads == [leading |-> 0, full |-> 0, ending |-> 0, ovf |-> FALSE]

StorageInit ==
  /\ map \in InitMaps
  /\ before = map
  /\ op = "init"
  /\ start = 0
  /\ len = 0
  /\ ret = FALSE
  /\ pads = NoPads
  /\ diag = NoDiag

\* A record as the loop sees it; the fields a kind does not carry are 0.
Record(kind, addr, offset, n) == [kind |-> kind, addr |-> addr, offset |-> offset, len |-> n]
NoRecord == Record("none", 0, 0, 0)

\* The arguments of a fill_bytes call of the loop: the selected page, the
\* bitmap passed as map, and whether the page had no bitmap before the record.
FillCall(page, bitmap, first) == [page |-> page, map |-> bitmap, first |-> first]
NoCall == FillCall(0, [i \in {} |-> 0], FALSE)

MainInit ==
  /\ call = NoCall
  /\ ihex_ela_addr = 0
  /\ ihex_esx_addr = 0
  /\ segment_map = [q \in {} |-> ZeroMap]
  /\ nrec = 0
  /\ rec = NoRecord

\* ----------------------------------------------- calls of the storage utils
DoFill(s, l, name) ==
  LET r == fill_bytes(map, s, l)
  IN  /\ map' = r.map
      /\ before' = map
      /\ op' = name
      /\ start' = s
      /\ len' = l
      /\ diag' = [idx |-> r.idx, bits |-> r.bits, ovf |-> r.ovf, oob |-> r.oob,
                  depth |-> r.depth]
      /\ panic' = IF r.oob THEN PanicIndex ELSE NoPanic
      /\ UNCHANGED <<ret, pads, checked>>
      /\ UNCHANGED main_vars

DoQuery(s, l, name) ==
  LET r == is_seg_range_set(map, s, l)
  IN  /\ ret' = r.ret
      /\ before' = map
      /\ op' = name
      /\ start' = s
      /\ len' = l
      /\ diag' = [idx |-> r.idx, bits |-> r.bits, ovf |-> r.ovf, oob |-> r.oob,
                  depth |-> 0]
      /\ panic' = IF r.oob THEN PanicIndex ELSE NoPanic
      /\ UNCHANGED <<map, pads, checked>>
      /\ UNCHANGED main_vars

\* fill_bytes(&mut map, s, l) for any s and l
Fill ==
  /\ op = "init"
  /\ panic = NoPanic
  /\ \E s \in U16, l \in U16 : DoFill(s, l, "fill")

\* the same call once more
FillAgain == op = "fill" /\ panic = NoPanic /\ DoFill(start, len, "refill")

\* is_seg_range_set(&map, s, l) for any s and l
Query ==
  /\ op = "init"
  /\ panic = NoPanic
  /\ \E s \in U16, l \in U16 : DoQuery(s, l, "query")

\* is_seg_range_set over the range just filled
QueryFilled == op = "fill" /\ panic = NoPanic /\ DoQuery(start, len, "requery")

\* get_pad_counts(s, l) for any s and l
GetPadCounts ==
  /\ op = "init"
  /\ panic = NoPanic
  /\ \E s \in U16, l \in U16 :
       /\ pads' = get_pad_counts(s, l)
       /\ start' = s
       /\ len' = l
  /\ op' = "pads"
  /\ UNCHANGED <<map, before, ret, diag, panic, checked>>
  /\ UNCHANGED main_vars

\* main.rs fill_bytes(&mut map, s, l) for any s and l, in a build with (c) or
\* without overflow checks
MainFill ==
  /\ op = "init"
  /\ panic = NoPanic
  /\ \E s \in U16, l \in U16, c \in BOOLEAN :
       LET r == main_fill_bytes(map, s, l, c)
       IN  /\ map' = r.map
           /\ start' = s
           /\ len' = l
           /\ panic' = r.panic
           /\ checked' = c
  /\ before' = map
  /\ op' = "main_fill"
  /\ UNCHANGED <<ret, pads, diag>>
  /\ UNCHANGED main_vars

Init == StorageInit /\ MainInit /\ panic = NoPanic /\ checked = FALSE

Next ==
  \/ Fill
  \/ FillAgain
  \/ Query
  \/ QueryFilled
  \/ GetPadCounts
  \/ MainFill

Spec == Init /\ [][Next]_vars

\* ------------------------------------------------- the record loop of main
\* What the reader hands the loop: addresses of extended-address records,
\* offsets and payload lengths of data records.
Addrs == {hi * 4096 + lo : hi \in 0 .. MaxAddrHi, lo \in 0 .. 1}
DataOffsets == {1, IHEX_SEGMENT_BYTES - 4}
DataLens == {0, 3, 9}

Reading == nrec < MaxRecords /\ panic = NoPanic

\* Record::Data { offset, value }
RecData(offset, n) ==
  LET page == page_of(ihex_esx_addr, ihex_ela_addr)
      sm1 == entry_or_default_resize(segment_map, page)
      r == main_fill_bytes(sm1[page], offset, n, checked)
  IN  /\ Reading
      /\ segment_map' = [sm1 EXCEPT ![page] = r.map]
      /\ panic' = r.panic
      /\ nrec' = nrec + 1
      /\ rec' = Record("Data", 0, offset, n)
      /\ call' = FillCall(page, sm1[page], page \notin DOMAIN segment_map)
      /\ UNCHANGED <<ihex_ela_addr, ihex_esx_addr, checked>>
      /\ UNCHANGED storage_vars

\* Record::ExtendedSegmentAddress(addr)
RecExtendedSegmentAddress(addr) ==
  LET c == on_extended_segment_address(addr, ihex_esx_addr, ihex_ela_addr)
  IN  /\ Reading
      /\ ihex_esx_addr' = c.esx
      /\ ihex_ela_addr' = c.ela
      /\ nrec' = nrec + 1
      /\ rec' = Record("ExtendedSegmentAddress", addr, 0, 0)
      /\ UNCHANGED <<segment_map, panic, checked, call>>
      /\ UNCHANGED storage_vars

\* Record::ExtendedLinearAddress(addr)
RecExtendedLinearAddress(addr) ==
  LET c == on_extended_linear_address(addr, ihex_esx_addr, ihex_ela_addr)
  IN  /\ Reading
      /\ ihex_esx_addr' = c.esx
      /\ ihex_ela_addr' = c.ela
      /\ nrec' = nrec + 1
      /\ rec' = Record("ExtendedLinearAddress", addr, 0, 0)
      /\ UNCHANGED <<segment_map, panic, checked, call>>
      /\ UNCHANGED storage_vars

\* _ => {} : EndOfFile, StartSegmentAddress, StartLinearAddress
RecOther ==
  /\ Reading
  /\ nrec' = nrec + 1
  /\ rec' = Record("Other", 0, 0, 0)
  /\ UNCHANGED <<ihex_ela_addr, ihex_esx_addr, segment_map, panic, checked, call>>
  /\ UNCHANGED storage_vars

\* Err(_) => {} : a line the reader could not parse
RecErr ==
  /\ Reading
  /\ nrec' = nrec + 1
  /\ rec' = Record("Err", 0, 0, 0)
  /\ UNCHANGED <<ihex_ela_addr, ihex_esx_addr, segment_map, panic, checked, call>>
  /\ UNCHANGED storage_vars

IngestInit ==
  /\ MainInit
  /\ panic = NoPanic
  /\ checked \in BOOLEAN
  /\ map = ZeroMap
  /\ before = ZeroMap
  /\ op = "init"
  /\ start = 0
  /\ len = 0
  /\ ret = FALSE
  /\ pads = NoPads
  /\ diag = NoDiag

IngestNext ==
  \/ \E offset \in DataOffsets, n \in DataLens : RecData(offset, n)
  \/ \E addr \in Addrs : RecExtendedSegmentAddress(addr)
  \/ \E addr \in Addrs : RecExtendedLinearAddress(addr)
  \/ RecOther
  \/ RecErr

SpecIngest == IngestInit /\ [][IngestNext]_vars

\* ------------------------------------------------------------------ claims
\* Tracked position p of bitmap m: bit 0x80 >> (p mod 8) of byte p div 8.
Positions == 0 .. (IHEX_SEGMENT_BYTES - 1)
IsSet(m, p) == (m[p \div 8] \div (2 ^ (7 - (p % 8)))) % 2 = 1
Tracked(m) == {p \in Positions : IsSet(m, p)}
\* The positions of (s, l), the overflow wrapped to offset 0 of the segment.
Range(s, l) == {(s + i) % IHEX_SEGMENT_BYTES : i \in 0 .. (l - 1)}
Filled == op \in {"fill", "refill"}
Queried == op \in {"query", "requery"}
Wraps == start + len > IHEX_SEGMENT_BYTES

\* C1: after fill_bytes(map, start, len) the set positions are those set
\* before the call united with {(start + i) mod 0x10000 : 0 <= i < len}.
C1_FillMarksExactlyTheRange ==
  Filled => Tracked(map) = Tracked(before) \cup Range(start, len)

\* C1 witness: a wrapping, unaligned fill of a bitmap that had positions set
\* outside the range and gained positions on both sides of the wrap.
C1_Witness ==
  /\ op = "fill"
  /\ Wraps
  /\ start % 8 # 0
  /\ Tracked(before) \ Range(start, len) # {}
  /\ \E p, q \in Tracked(map) \ Tracked(before) : p < start /\ q >= start

\* C2: with len >= 1, is_seg_range_set over the range just filled is true,
\* wrapping ranges included.
C2_FilledRangeIsSet ==
  (op = "requery" /\ len >= 1) => ret = TRUE

\* C2 witness: the query of a wrapping range whose fill set exactly it.
C2_Witness ==
  /\ op = "requery"
  /\ Wraps
  /\ Tracked(map) = Range(start, len)
  /\ ret = TRUE

\* C3: is_seg_range_set is true iff a position p with
\* start <= p < min(start + len, 0x10000) is set; the overflow tail is not
\* consulted and len = 0 reports false.
C3_QueryScansTruncatedRange ==
  Queried =>
    (ret = \E p \in start .. (Min(start + len, IHEX_SEGMENT_BYTES) - 1) : IsSet(map, p))

\* C3 witness: a wrapping query whose only set positions lie in the tail
\* reports false.
C3_Witness ==
  /\ op = "query"
  /\ Wraps
  /\ \E p \in 0 .. (start + len - IHEX_SEGMENT_BYTES - 1) : IsSet(map, p)
  /\ ret = FALSE

\* C4: no step of a fill_bytes call clears a bit: every position set before
\* the step is set after it.
C4_FillIsMonotonic ==
  [][op' \in {"fill", "refill"} => \A p \in Positions : IsSet(map, p) => IsSet(map', p)]_vars

\* C4 witness: a second fill over a bitmap that keeps positions set before the
\* first one outside its range.
C4_Witness ==
  /\ op = "refill"
  /\ Wraps
  /\ Tracked(map) \ Range(start, len) # {}
  /\ Tracked(map) # Positions

\* C5: calling fill_bytes twice in a row with the same arguments gives the
\* bitmap of calling it once.
C5_FillIsIdempotent ==
  op = "refill" => map = before

\* C5 witness: a repeated fill with leading bits, full bytes, trailing bits
\* and a wrapped tail.
C5_Witness ==
  /\ op = "refill"
  /\ Wraps
  /\ start % 8 # 0
  /\ len > 16
  /\ Tracked(map) # Positions

\* C6: get_pad_counts(start, len) = (leading, full, trailing) has
\* leading + full*8 + trailing = len, leading and trailing in [0, 7], and no
\* intermediate u16 operation leaves the u16 range.
C6_PadCountsDecompose ==
  op = "pads" =>
    /\ pads.leading + pads.full * 8 + pads.ending = len
    /\ pads.leading \in 0 .. 7
    /\ pads.ending \in 0 .. 7
    /\ ~pads.ovf

\* C6 witness: a decomposition with all three parts, of a range reaching past
\* the end of the segment.
C6_Witness ==
  /\ op = "pads"
  /\ pads.leading > 0
  /\ pads.full > 0
  /\ pads.ending > 0
  /\ Wraps

\* C7: on a bitmap of SEGMENT_BYTES bytes fill_bytes and is_seg_range_set
\* index only [0, SEGMENT_BYTES - 1], pass only [0, 7] to bit_msk, never
\* underflow, recurse at most once, and complete.
C7_StorageCallsAreTotal ==
  (Filled \/ Queried) =>
    /\ diag.idx \subseteq 0 .. (SEGMENT_BYTES - 1)
    /\ diag.bits \subseteq 0 .. 7
    /\ ~diag.ovf
    /\ ~diag.oob
    /\ diag.depth <= 1
    /\ panic = NoPanic

\* C7 witness: a fill that wrote the last bitmap byte, shifted by 7 and
\* recursed for its tail.
C7_Witness ==
  /\ op = "fill"
  /\ (SEGMENT_BYTES - 1) \in diag.idx
  /\ 7 \in diag.bits
  /\ diag.depth = 1

\* The call of C8: fill_bytes(map, 4, 8) on an all-zero bitmap.
C8_Case == op = "fill" /\ before = ZeroMap /\ start = 4 /\ len = 8

\* C8 as stated: the trailing mask lands in the byte of the leading bits, so
\* bitmap byte 0 is 0b11111111.
C8_Original ==
  C8_Case => map[0] = 255

\* C8 amended: byte 0 holds the 4 leading bits (0b00001111) and the trailing
\* mask end_mask(4) = 0b11110000 is OR'd into byte 1; no other byte changes.
C8_TrailingMaskInNextByte ==
  C8_Case =>
    /\ map[0] = 15
    /\ map[1] = 240
    /\ \A b \in 2 .. (SEGMENT_BYTES - 1) : map[b] = 0

\* C8 witness: the call has been made.
C8_Witness ==
  C8_Case /\ map # before

\* C9 as stated: main.rs fill_bytes completes without a panic and gives the
\* bitmap ihex_storage_utils::fill_bytes gives, the MSB-first bits of the range.
C9_MainFillMatchesStorageFill ==
  op = "main_fill" =>
    /\ panic = NoPanic
    /\ map = fill_bytes(before, start, len).map
    /\ Tracked(map) = Tracked(before) \cup Range(start, len)

\* C10: at most one of ihex_ela_addr and ihex_esx_addr is nonzero; an
\* extended-address record sets its own counter to its address and the other
\* to 0; every other record leaves both unchanged.
C10_OneAddressCounter ==
  /\ [](ihex_ela_addr = 0 \/ ihex_esx_addr = 0)
  /\ [][/\ rec'.kind = "ExtendedSegmentAddress" =>
             ihex_esx_addr' = rec'.addr /\ ihex_ela_addr' = 0
        /\ rec'.kind = "ExtendedLinearAddress" =>
             ihex_ela_addr' = rec'.addr /\ ihex_esx_addr' = 0
        /\ rec'.kind \in {"Data", "Other", "Err"} =>
             UNCHANGED <<ihex_ela_addr, ihex_esx_addr>>]_vars

\* C10 witness: a segment record with a nonzero address arrived while the
\* linear counter was nonzero, and a data record followed.
C10_Witness ==
  /\ rec.kind = "Data"
  /\ nrec = 3
  /\ ihex_esx_addr # 0
  /\ ihex_ela_addr = 0
  /\ DOMAIN segment_map # {}

\* A Vec<u8> of length exactly SEGMENT_BYTES.
FullLength(bitmap) == DOMAIN bitmap = 0 .. (SEGMENT_BYTES - 1)

\* C11: at every fill_bytes call of the loop the bitmap of the selected page
\* is in segment_map with length exactly SEGMENT_BYTES and is all zero at the
\* first fill of the page; a revisited page is handed its stored bitmap as it
\* is, every stored bitmap keeps its page, its length and its set positions,
\* and every bitmap in segment_map has length exactly SEGMENT_BYTES.
C11_BitmapsAllocatedAndKept ==
  /\ [](\A q \in DOMAIN segment_map : FullLength(segment_map[q]))
  /\ [][rec'.kind = "Data" =>
          /\ call'.page = page_of(ihex_esx_addr, ihex_ela_addr)
          /\ call'.page \in DOMAIN segment_map'
          /\ FullLength(call'.map)
          /\ call'.first = (call'.page \notin DOMAIN segment_map)
          /\ call'.first => call'.map = ZeroMap
          /\ ~call'.first => call'.map = segment_map[call'.page]
          /\ \A q \in DOMAIN segment_map :
               /\ q \in DOMAIN segment_map'
               /\ FullLength(segment_map'[q])
               /\ Tracked(segment_map[q]) \subseteq Tracked(segment_map'[q])
               /\ q # call'.page => segment_map'[q] = segment_map[q]]_vars

\* C11 witness: a data record revisited a page whose bitmap already had
\* positions set, and the fill returned.
C11_Witness ==
  /\ rec.kind = "Data"
  /\ ~call.first
  /\ Tracked(call.map) # {}
  /\ panic = NoPanic
  /\ Tracked(segment_map[call.page]) # Tracked(call.map)

====
